---- MODULE Spec2Model ----
(***************************************************************************)
(* The "highlight related" request of crates/ide/src/highlight_related.rs. *)
(*                                                                         *)
(* A request is a pure function of a parsed file, the semantic database    *)
(* and (offset, config).  The file is an arena of syntax nodes in preorder *)
(* (tree), the semantic database is the record sema, and a request is one  *)
(* action that runs highlight_related on a token of the tree.  Text ranges *)
(* are computed from the layout of the tree, one text unit per token.      *)
(***************************************************************************)
EXTENDS Integers, Sequences, FiniteSets, TLC

VARIABLES
    tree,     \* the syntax tree: a sequence of nodes in preorder, parent links by index
    sema,     \* what the semantic database answers for this file
    pc,       \* "build" while the input is being put together, "done" after the request
    req,      \* the request: the tokens at the offset and the configuration
    called,   \* the analyzers the dispatcher invoked, in order
    result,   \* Option<Vec<HighlightedRange>> returned by the request
    toks      \* the token stream of the file, in text order

vars == <<tree, sema, pc, req, called, result, toks>>

-----------------------------------------------------------------------------
(* Bounds of the model.                                                    *)

\* nodes of a tree in the break/continue specification
MaxBreakNodes == 3
\* nodes of a tree in the exit-point specification
MaxExitNodes == 3
\* nodes of a tree in the dispatcher specification
MaxDispatchNodes == 1
\* nodes of a tree in the yield-point specification
MaxYieldNodes == 3
\* definitions the semantic database knows
MaxDefs == 1
\* entries of a closure's capture list
MaxCaptures == 2
MaxTailNodes == 3
\* distinct label texts ('a, 'b, ...)
NumLabels == 2

-----------------------------------------------------------------------------
(* Option and HighlightedRange.                                            *)

None == [some |-> FALSE, v |-> <<>>]
Some(x) == [some |-> TRUE, v |-> x]

\* struct HighlightedRange { range, category }
HighlightedRange(range, category) == [range |-> range, category |-> category]

\* cover_range: the union of two optional ranges (TextRange::cover)
Min(a, b) == IF a <= b THEN a ELSE b
Max(a, b) == IF a >= b THEN a ELSE b
cover_range(r0, r1) ==
    IF r0.some /\ r1.some
    THEN Some(<<Min(r0.v[1], r1.v[1]), Max(r0.v[2], r1.v[2])>>)
    ELSE IF r0.some THEN r0
    ELSE IF r1.some THEN r1
    ELSE None

\* Option<TextRange> -> the zero or one highlights `highlights.extend(range.map(..))` adds
OptHl(r) == IF r.some THEN <<HighlightedRange(r.v, "None")>> ELSE <<>>

RECURSIVE Flatten(_)
Flatten(ss) == IF ss = <<>> THEN <<>> ELSE Head(ss) \o Flatten(Tail(ss))

SeqMap(Op(_), s) == [k \in 1..Len(s) |-> Op(s[k])]
Range(s) == {s[k] : k \in 1..Len(s)}

-----------------------------------------------------------------------------
(* The syntax tree.                                                        *)
(*                                                                         *)
(* A node is [kind, parent, lbl, mod, flag, tail, slot]:                   *)
(*   kind   the AST node kind (Fn, LoopExpr, BreakExpr, ...)               *)
(*   parent index of the parent node, 0 for the statement list of the file *)
(*   lbl    0, or the label text a loop/block declares or a break names    *)
(*   mod    "none", or the modifier keyword (async, try, const, unsafe,    *)
(*          move)                                                          *)
(*          or, for a NameRef, the place where the name stands             *)
(*   flag   Fn: has a body; BreakExpr/ReturnExpr: has an operand;          *)
(*          calls: the inferred type is `!`                                *)
(*   tail   a statement list whose last expression has no `;`              *)
(*   slot   "body", or "cond" for the condition/iterable of while/for      *)
(* The body block of a function or loop is folded into its node: it is a   *)
(* plain unlabeled block, which every ancestor search below skips.         *)

Node(kind, lbl, mod, flag, tail) ==
    [kind |-> kind, parent |-> 0, lbl |-> lbl, mod |-> mod, flag |-> flag,
     tail |-> tail, slot |-> "body"]

Idx == [k \in 1..Len(tree) |-> k]
Nodes == 1..Len(tree)

LoopKinds == {"LoopExpr", "WhileExpr", "ForExpr"}

\* the children of node p (0: the top level), in text order
ChildrenOf(p) == SelectSeq(Idx, LAMBDA j : tree[j].parent = p)
BodyChildren(p) == SelectSeq(Idx, LAMBDA j : tree[j].parent = p /\ tree[j].slot = "body")

\* SyntaxToken::parent_ancestors: the node and its ancestors, innermost first
RECURSIVE Ancestors(_)
Ancestors(i) == IF i = 0 THEN <<>> ELSE <<i>> \o Ancestors(tree[i].parent)

\* the path from the last node to the root: where the parser can still attach a node
OpenNodes == IF tree = <<>> THEN {0} ELSE Range(Ancestors(Len(tree))) \cup {0}

-----------------------------------------------------------------------------
(* Text layout: every token is one unit wide, the text of a node is the    *)
(* concatenation of its tokens and of the text of its children.            *)

\* a token is [node, name]: its parent node and which of the node's tokens it is
Token(i, name) == [node |-> i, name |-> name]

\* the children of node p of tree t in one slot, in text order
KidsIn(t, p, sl) ==
    SelectSeq([k \in 1..Len(t) |-> k], LAMBDA j : t[j].parent = p /\ t[j].slot = sl)

\* the token stream of node i of tree t: what the tokenizer hands out for its text
RECURSIVE NodeToks(_, _)
NodeToks(t, i) ==
    LET n == t[i]
        k == n.kind
        body == KidsIn(t, i, "body")
        cond == KidsIn(t, i, "cond")
        T(name) == <<Token(i, name)>>
        \* `'a:` before a loop or block: the Label node is the lifetime and the colon
        LabelToks == IF n.lbl > 0 THEN T("lifetime") \o T(":") ELSE <<>>
        \* the lifetime a break/continue names
        LifetimeTok == IF n.lbl > 0 THEN T("lifetime") ELSE <<>>
        ModToks == IF n.mod # "none" THEN T(n.mod) ELSE <<>>
        \* a statement list: every statement ends in `;` except a tail expression
        \* and items
        Stmts == Flatten([j \in 1..Len(body) |->
                    NodeToks(t, body[j])
                    \o (IF (j = Len(body) /\ n.tail) \/ t[body[j]].kind \in {"Fn", "Impl"}
                        THEN <<>> ELSE T(";"))])
        Block == T("{") \o Stmts \o T("}")
        \* the operand of `?`/`.await`, the body of a closure, the condition of a while
        Operand(cs, dflt) == IF cs = <<>> THEN dflt ELSE NodeToks(t, cs[1])
    IN  CASE k = "Fn" ->
               ModToks \o T("fn") \o T("name") \o T("(") \o T(")") \o T("->") \o T("ty")
               \o (IF n.flag THEN Block ELSE T(";"))
          [] k = "Impl" -> T("impl") \o T("name") \o T("for") \o T("ty") \o T("{") \o T("}")
          [] k = "ClosureExpr" -> ModToks \o T("|") \o T("|") \o Operand(body, <<>>)
          [] k = "BlockExpr" -> ModToks \o LabelToks \o Block
          [] k = "LoopExpr" -> LabelToks \o T("loop") \o Block
          [] k = "WhileExpr" -> LabelToks \o T("while") \o Operand(cond, T("true")) \o Block
          [] k = "ForExpr" ->
               LabelToks \o T("for") \o T("pat") \o T("in") \o Operand(cond, T("iter")) \o Block
          [] k = "IfExpr" ->
               T("if") \o T("true")
               \o Flatten([j \in 1..Len(body) |->
                     (IF j > 1 THEN T("else") ELSE <<>>) \o NodeToks(t, body[j])])
          [] k = "MatchExpr" ->
               T("match") \o T("scrutinee") \o T("{")
               \o Flatten([j \in 1..Len(body) |->
                     T("pat") \o T("=>") \o NodeToks(t, body[j]) \o T(",")])
               \o T("}")
          [] k = "BreakExpr" ->
               T("break") \o LifetimeTok \o (IF n.flag THEN T("0") ELSE <<>>)
          [] k = "ContinueExpr" -> T("continue") \o LifetimeTok
          [] k = "ReturnExpr" -> T("return") \o (IF n.flag THEN T("0") ELSE <<>>)
          [] k = "TryExpr" -> Operand(body, T("0")) \o T("?")
          [] k = "AwaitExpr" -> Operand(body, T("0")) \o T(".") \o T("await")
          [] k = "CallExpr" -> T("ident") \o T("(") \o T(")")
          [] k = "MethodCallExpr" -> T("0") \o T(".") \o T("ident") \o T("(") \o T(")")
          \* a macro call; its token tree may hold any token, here a `?`
          [] k = "MacroExpr" -> T("ident") \o T("!") \o T("(") \o T("?") \o T(")")
          [] k = "PathExpr" -> T("ident")
          \* a path of one segment that names a trait; mod tells where it stands
          [] k = "NameRef" -> T("ident")
          [] OTHER -> T("0")

\* the token stream of the file: its items one after the other
FileToks(t) == Flatten(SeqMap(LAMBDA i : NodeToks(t, i), KidsIn(t, 0, "body")))

\* the last node of the subtree of i (the arena is in preorder)
SubtreeEnd(i) ==
    CHOOSE d \in i..Len(tree) :
        /\ \A j \in (i + 1)..d : tree[j].parent >= i
        /\ (d < Len(tree) => tree[d + 1].parent < i)

\* d lies strictly below a
IsBelow(d, a) == a < d /\ d <= SubtreeEnd(a)

\* the positions in the token stream of the tokens of the subtree of i
TokPositions(i) == {k \in 1..Len(toks) : toks[k].node >= i /\ toks[k].node <= SubtreeEnd(i)}
SetMin(S) == CHOOSE x \in S : \A y \in S : x <= y
SetMax(S) == CHOOSE x \in S : \A y \in S : x >= y

\* syntax().text_range() of a node: from its first token to its last
NodeRange(i) == <<SetMin(TokPositions(i)) - 1, SetMax(TokPositions(i))>>

HasTok(i, name) == \E k \in 1..Len(toks) : toks[k] = Token(i, name)
\* text_range() of the first token called `name` among the node's own tokens
TokRange(i, name) ==
    LET k == SetMin({j \in 1..Len(toks) : toks[j] = Token(i, name)})
    IN  <<k - 1, k>>
\* an optional token (fn_token(), break_token(), lifetime(), ...) as Option<TextRange>
OptTokRange(i, name) == IF HasTok(i, name) THEN Some(TokRange(i, name)) ELSE None
\* the Label node of a loop or block: lifetime and colon
LabelRange(i) ==
    IF tree[i].lbl > 0
    THEN Some(<<TokRange(i, "lifetime")[1], TokRange(i, "lifetime")[1] + 2>>)
    ELSE None

-----------------------------------------------------------------------------
(* Token kinds.                                                            *)

Keywords ==
    {"fn", "return", "await", "async", "for", "break", "loop", "while", "continue",
     "move", "unsafe", "try", "const", "if", "else", "match", "in", "true", "impl"}

\* SyntaxToken::kind
TokenKind(tok) ==
    CASE tok.name \in Keywords -> tok.name
      [] tok.name \in {"?", "->", "|"} -> tok.name
      [] tok.name \in {"ident", "name", "ty", "pat", "iter", "scrutinee"} -> "IDENT"
      [] tok.name = "0" -> "INT_NUMBER"
      [] tok.name = "lifetime" -> "LIFETIME_IDENT"
      [] OTHER -> "PUNCT"

\* the first element of a sequence of nodes that satisfies Test, 0 if none
FirstWhere(s, Test(_)) ==
    IF \E k \in 1..Len(s) : Test(s[k])
    THEN s[CHOOSE k \in 1..Len(s) : Test(s[k]) /\ \A j \in 1..(k - 1) : ~Test(s[j])]
    ELSE 0

-----------------------------------------------------------------------------
(* ide_db::syntax_helpers::node_ext::for_each_break_and_continue_expr      *)

\* the nodes inside the statement list of construct t (not its condition)
InBody(d, t) ==
    /\ IsBelow(d, t)
    /\ \E c \in Nodes : tree[c].parent = t /\ tree[c].slot = "body" /\ c \in Range(Ancestors(d))

\* a construct that captures unlabeled break/continue: a loop or a labeled block
CapturesBreak(a) ==
    tree[a].kind \in LoopKinds \/ (tree[a].kind = "BlockExpr" /\ tree[a].lbl > 0)

\* the number of capturing constructs between d and t
Depth(d, t) == Cardinality({a \in Nodes : IsBelow(d, a) /\ IsBelow(a, t) /\ CapturesBreak(a)})

\* two optional labels are equal: both present, same text
eq_label(l1, l2) == l1 > 0 /\ l2 > 0 /\ l1 = l2

\* the break and continue expressions of body t that target label `label`,
\* in text order
for_each_break_and_continue_expr(label, t) ==
    SelectSeq(Idx, LAMBDA d :
        /\ InBody(d, t)
        /\ tree[d].kind \in {"BreakExpr", "ContinueExpr"}
        /\ \/ (Depth(d, t) = 0 /\ tree[d].lbl = 0)
           \/ eq_label(label, tree[d].lbl))

-----------------------------------------------------------------------------
(* highlight_break_points                                                  *)

\* break_range without the filter on the kind of the cursor token
break_range_unfiltered(cursor_token_kind, d) ==
    IF tree[d].kind = "BreakExpr"
    THEN cover_range(OptTokRange(d, "break"), OptTokRange(d, "lifetime"))
    ELSE cover_range(OptTokRange(d, "continue"), OptTokRange(d, "lifetime"))

\* the closure passed to for_each_break_and_continue_expr in hl
break_range(cursor_token_kind, d) ==
    IF cursor_token_kind \in {"for", "while", "loop", "break"} /\ tree[d].kind = "BreakExpr"
    THEN cover_range(OptTokRange(d, "break"), OptTokRange(d, "lifetime"))
    ELSE IF cursor_token_kind \in {"for", "while", "loop", "continue"}
            /\ tree[d].kind = "ContinueExpr"
    THEN cover_range(OptTokRange(d, "continue"), OptTokRange(d, "lifetime"))
    ELSE None

\* hl that hands the enumeration no label
break_hl_unlabeled(cursor_token_kind, kw, t) ==
    LET anchor == cover_range(OptTokRange(t, kw), LabelRange(t))
        found == for_each_break_and_continue_expr(0, t)
    IN  Some(OptHl(anchor)
             \o Flatten([k \in 1..Len(found) |->
                    OptHl(break_range(cursor_token_kind, found[k]))]))

\* hl(cursor_token_kind, token, label, body) for construct t whose keyword is kw
break_hl(cursor_token_kind, kw, t) ==
    LET anchor == cover_range(OptTokRange(t, kw), LabelRange(t))
        found == for_each_break_and_continue_expr(tree[t].lbl, t)
    IN  Some(OptHl(anchor)
             \o Flatten([k \in 1..Len(found) |->
                    OptHl(break_range(cursor_token_kind, found[k]))]))

\* a test that takes the nearest loop or labeled block whatever the label
label_matches_any(lbl, def_lbl) == TRUE

\* label_matches
label_matches(lbl, def_lbl) == IF lbl > 0 THEN lbl = def_lbl ELSE TRUE

LoopKeyword(t) ==
    CASE tree[t].kind = "LoopExpr" -> "loop"
      [] tree[t].kind = "ForExpr" -> "for"
      [] tree[t].kind = "WhileExpr" -> "while"
      [] OTHER -> "none"

highlight_break_points(token) ==
    LET parent == token.node
        pk == tree[parent].kind
        hasLbl == pk \in {"BreakExpr", "ContinueExpr", "BlockExpr"} \cup LoopKinds
        lbl == tree[parent].lbl
        exprs == SelectSeq(Ancestors(parent), LAMBDA a : tree[a].kind # "Fn")
        target == FirstWhere(exprs, LAMBDA a :
                     \/ (tree[a].kind \in LoopKinds /\ label_matches(lbl, tree[a].lbl))
                     \/ (tree[a].kind = "BlockExpr" /\ tree[a].lbl > 0
                         /\ label_matches(lbl, tree[a].lbl)))
    IN  IF ~hasLbl \/ (pk = "BlockExpr" /\ lbl = 0) THEN None
        ELSE IF target = 0 THEN None
        ELSE break_hl(TokenKind(token), LoopKeyword(target), target)

-----------------------------------------------------------------------------
(* ide_db::syntax_helpers::node_ext: walk_expr, for_each_tail_expr         *)

AsyncTryConst == {"async", "try", "const"}

\* a node that opens a context of its own: the walk reports it but does not enter it
IsDifferentContext(a) ==
    \/ tree[a].kind \in {"Fn", "ClosureExpr"}
    \/ (tree[a].kind = "BlockExpr" /\ tree[a].mod \in AsyncTryConst)

\* an optional body expression: the node, and whether the node is the body block
\* folded into a function (then the block itself carries no kind of its own)
NoBody == [some |-> FALSE, node |-> 0]
BodyOf(n) == [some |-> TRUE, node |-> n]

\* walk_expr(start): the expressions under start in preorder, start included,
\* without the inside of nested items, closures and async/try/const blocks
walk_expr(start) ==
    SelectSeq(Idx, LAMBDA d :
        /\ tree[d].kind # "Fn"
        /\ \/ d = start
           \/ /\ IsBelow(d, start)
              /\ \A a \in Nodes : (IsBelow(d, a) /\ IsBelow(a, start)) => ~IsDifferentContext(a))

\* StmtList::tail_expr of the statement list of node i: 0 when there is none
tail_expr(i) ==
    LET cs == BodyChildren(i)
    IN  IF cs # <<>> /\ tree[i].tail /\ tree[cs[Len(cs)]].kind # "Fn" THEN cs[Len(cs)] ELSE 0

\* for_each_break_expr: the break expressions of body t that target label `label`
for_each_break_expr(label, t) ==
    SelectSeq(for_each_break_and_continue_expr(label, t), LAMBDA d : tree[d].kind = "BreakExpr")

\* an enumeration for which a loop in tail position is a leaf like any other
RECURSIVE for_each_tail_expr_loop_leaf(_)
for_each_tail_expr_loop_leaf(e) ==
    LET k == tree[e].kind
        cs == ChildrenOf(e)
    IN  CASE k = "BlockExpr" ->
               IF tree[e].mod \in AsyncTryConst THEN <<e>>
               ELSE (IF tree[e].lbl > 0 THEN for_each_break_expr(tree[e].lbl, e) ELSE <<>>)
                    \o (IF tail_expr(e) # 0
                        THEN for_each_tail_expr_loop_leaf(tail_expr(e)) ELSE <<>>)
          [] k \in {"IfExpr", "MatchExpr"} ->
               Flatten([j \in 1..Len(cs) |-> for_each_tail_expr_loop_leaf(cs[j])])
          [] OTHER -> <<e>>

\* for_each_tail_expr(e): the expressions in tail position of e, in the order reported
RECURSIVE for_each_tail_expr(_)
for_each_tail_expr(e) ==
    LET k == tree[e].kind
        cs == ChildrenOf(e)
    IN  CASE k = "BlockExpr" ->
               IF tree[e].mod \in AsyncTryConst THEN <<e>>
               ELSE (IF tree[e].lbl > 0 THEN for_each_break_expr(tree[e].lbl, e) ELSE <<>>)
                    \o (IF tail_expr(e) # 0 THEN for_each_tail_expr(tail_expr(e)) ELSE <<>>)
          [] k \in {"IfExpr", "MatchExpr"} ->
               Flatten([j \in 1..Len(cs) |-> for_each_tail_expr(cs[j])])
          [] k \in LoopKinds -> for_each_break_expr(tree[e].lbl, e)
          [] OTHER -> <<e>>

-----------------------------------------------------------------------------
(* highlight_exit_points                                                   *)

\* the closure passed to walk_expr in hl
exit_walk_hl(d) ==
    LET k == tree[d].kind
    IN  CASE k = "ReturnExpr" -> OptHl(OptTokRange(d, "return"))
          [] k = "TryExpr" -> OptHl(OptTokRange(d, "?"))
          [] k \in {"MethodCallExpr", "CallExpr", "MacroExpr"} ->
               IF tree[d].flag THEN <<HighlightedRange(NodeRange(d), "None")>> ELSE <<>>
          [] OTHER -> <<>>

\* a closure that highlights every tail expression as a whole
exit_tail_hl_whole(d) == <<HighlightedRange(NodeRange(d), "None")>>

\* the closure passed to for_each_tail_expr in hl
exit_tail_hl(d) ==
    IF tree[d].kind = "BreakExpr" /\ HasTok(d, "break")
    THEN <<HighlightedRange(TokRange(d, "break"), "None")>>
    ELSE <<HighlightedRange(NodeRange(d), "None")>>

\* `let body = body?;`
exit_body(highlights, body) == IF body.some THEN Some(highlights) ELSE None

\* hl(sema, def_ranges, body)
exit_hl(def_ranges, body) ==
    LET anchors == Flatten(SeqMap(OptHl, def_ranges))
        n == body.node
        isBlock == tree[n].kind \in {"Fn", "BlockExpr"}
        walked == walk_expr(n)
        tail == IF isBlock THEN tail_expr(n) ELSE n
    IN  IF ~exit_body(anchors, body).some THEN None
        ELSE Some(anchors
                  \o Flatten(SeqMap(exit_walk_hl, walked))
                  \o (IF tail # 0
                      THEN Flatten(SeqMap(exit_tail_hl, for_each_tail_expr(tail)))
                      ELSE <<>>))

\* Fn::body, ClosureExpr::body
FnBody(a) == IF tree[a].flag THEN BodyOf(a) ELSE NoBody
ClosureBody(a) == IF ChildrenOf(a) # <<>> THEN BodyOf(ChildrenOf(a)[1]) ELSE NoBody

\* an ancestor search that stops at functions only
IsExitScope_fn_only(a) == tree[a].kind = "Fn"

\* the ancestors at which the search of highlight_exit_points stops
IsExitScope(a) ==
    \/ tree[a].kind \in {"Fn", "ClosureExpr"}
    \/ (tree[a].kind = "BlockExpr" /\ tree[a].mod \in AsyncTryConst)

highlight_exit_points(token) ==
    LET anc == FirstWhere(Ancestors(token.node), IsExitScope)
    IN  IF anc = 0 THEN None
        ELSE CASE tree[anc].kind = "Fn" ->
                    exit_hl(<<OptTokRange(anc, "fn"), None>>, FnBody(anc))
               [] tree[anc].kind = "ClosureExpr" ->
                    exit_hl(<<OptTokRange(anc, "("), OptTokRange(anc, ")")>>, ClosureBody(anc))
               [] OTHER ->
                    exit_hl(<<OptTokRange(anc, tree[anc].mod), None>>, BodyOf(anc))

-----------------------------------------------------------------------------
(* highlight_yield_points                                                  *)

\* hl(async_token, body)
yield_hl(async_token, body) ==
    IF ~async_token.some THEN None
    ELSE Some(<<HighlightedRange(async_token.v, "None")>>
              \o (IF body.some
                  THEN Flatten(SeqMap(LAMBDA d :
                           IF tree[d].kind = "AwaitExpr"
                           THEN OptHl(OptTokRange(d, "await")) ELSE <<>>,
                         walk_expr(body.node)))
                  ELSE <<>>))

\* a search that passes over whatever is not asynchronous
IsYieldScope_async_only(a) == HasTok(a, "async")

IsYieldScope(a) ==
    \/ tree[a].kind \in {"Fn", "ClosureExpr"}
    \/ (tree[a].kind = "BlockExpr" /\ HasTok(a, "async"))

highlight_yield_points(token) ==
    LET anc == FirstWhere(Ancestors(token.node), IsYieldScope)
    IN  IF anc = 0 THEN None
        ELSE CASE tree[anc].kind = "Fn" -> yield_hl(OptTokRange(anc, "async"), FnBody(anc))
               [] tree[anc].kind = "ClosureExpr" ->
                    yield_hl(OptTokRange(anc, "async"), ClosureBody(anc))
               [] OTHER -> yield_hl(OptTokRange(anc, "async"), BodyOf(anc))

-----------------------------------------------------------------------------
(* The semantic database, as far as a request reads it.                    *)
(*                                                                         *)
(* sema is [defs, find_defs, fmt, closure_ty, captures]:                   *)
(*   defs       the definitions, by id: [kind, mut, nav, navs, refs, items]*)
(*                kind  Local, Module, Trait or Other                      *)
(*                mut   Local::is_mut                                      *)
(*                nav   try_to_nav answers Some                            *)
(*                navs  the NavigationTargets: [file_id, focus]            *)
(*                refs  every reference the search knows:                  *)
(*                      [file_id, range, category]                         *)
(*                items a trait's items_with_supertraits, as ids           *)
(*   find_defs  the definitions an identifier token classifies to          *)
(*   fmt        check_for_format_args_template: Option<(range, Option def)>*)
(*   closure_ty type_of_expr(closure) is known and is a closure type       *)
(*   captures   captured_items of the closure, each as its local's id      *)

\* the file of the request, and another file of the crate
FileId == 1
OtherFile == 2

NoSema ==
    [defs |-> <<>>, find_defs |-> {}, fmt |-> None,
     closure_ty |-> FALSE, captures |-> <<>>]

\* r lies inside s (TextRange::contains_range)
contains_range(s, r) == s[1] <= r[1] /\ r[2] <= s[2]

\* FindUsages::all().references.remove(&file_id) for a search scope of one file,
\* optionally narrowed to a range: the references of the definition in scope
usages(d, file_id, scope) ==
    SelectSeq(sema.defs[d].refs, LAMBDA r :
        r.file_id = file_id /\ (scope.some => contains_range(scope.v, r.range)))

\* FileReference { category, range, .. } -> HighlightedRange { range, category }
RefHl(r) == <<HighlightedRange(r.range, r.category)>>

\* the declaration sites whatever their file
decl_hls_any_file(d, file_id, category) ==
    Flatten(SeqMap(LAMBDA nav :
                IF nav.focus.some
                THEN <<HighlightedRange(nav.focus.v, category)>>
                ELSE <<>>,
            sema.defs[d].navs))

\* local.sources().flat_map(to_nav).filter(file).filter_map(focus_range).map(..)
decl_hls(d, file_id, category) ==
    Flatten(SeqMap(LAMBDA nav :
                IF nav.file_id = file_id /\ nav.focus.some
                THEN <<HighlightedRange(nav.focus.v, category)>>
                ELSE <<>>,
            sema.defs[d].navs))

\* a category that does not look at the local
mut_category_write(d) == "Write"

\* local.is_mut(db).then_some(ReferenceCategory::Write)
mut_category(d) == IF sema.defs[d].mut THEN "Write" ELSE "None"

-----------------------------------------------------------------------------
(* highlight_closure_captures                                              *)

\* the first two ancestors of a token; a `|` sits in the closure's ParamList,
\* which is written 0 here
ParentAncestors2(token) ==
    LET anc == IF token.name = "|" THEN <<0>> \o Ancestors(token.node)
               ELSE Ancestors(token.node)
    IN  SubSeq(anc, 1, Min(2, Len(anc)))

\* a search that is not narrowed to the body
capture_search_file(closure) == <<0, Len(toks)>>

\* the range in which captured locals are searched
capture_search_range(closure) == NodeRange(ClosureBody(closure).node)

highlight_closure_captures(token, file_id) ==
    LET closure == FirstWhere(ParentAncestors2(token),
                              LAMBDA a : a # 0 /\ tree[a].kind = "ClosureExpr")
    IN  IF closure = 0 THEN None
        ELSE IF ~ClosureBody(closure).some THEN None
        ELSE IF ~sema.closure_ty THEN None
        ELSE Some(Flatten(SeqMap(LAMBDA local :
                      decl_hls(local, file_id, mut_category(local))
                      \o Flatten(SeqMap(RefHl,
                             usages(local, file_id, Some(capture_search_range(closure))))),
                    sema.captures)))

-----------------------------------------------------------------------------
(* highlight_references                                                    *)

\* the order in which a set of highlights is listed: by range, then category
HlBefore(a, b) ==
    \/ a.range[1] < b.range[1]
    \/ (a.range[1] = b.range[1] /\ a.range[2] < b.range[2])
    \/ (a.range = b.range /\ a.category \in {"Import", "None", "Read"}
        /\ b.category \in {"Write"} \cup
             (IF a.category = "Import" THEN {"None", "Read"}
              ELSE IF a.category = "None" THEN {"Read"} ELSE {}))

\* res.into_iter().collect(): the elements of the set, each once
RECURSIVE SetToSeq(_)
SetToSeq(S) ==
    IF S = {} THEN <<>>
    ELSE LET m == CHOOSE x \in S : \A y \in S \ {x} : HlBefore(x, y)
         IN  <<m>> \o SetToSeq(S \ {m})

\* find_defs, and the format-args template that precedes it
ref_defs(token) ==
    IF sema.fmt.some
    THEN (IF sema.fmt.v.def # 0 THEN {sema.fmt.v.def} ELSE {})
    ELSE IF TokenKind(token) = "IDENT" THEN sema.find_defs ELSE {}

\* the syntax nodes above the full path of a name that stands at `place`,
\* innermost first, up to the item, block or file that holds the construct:
\*   use         use Trait;
\*   type_param  fn f<T: Trait>()
\*   where       fn f<T>() where T: Trait
\*   dyn         let x: &dyn Trait
\*   impl        impl Trait for Ty
\*   expr        Trait::f()
PathParents(place) ==
    CASE place = "use" -> <<"UseTree", "Use">>
      [] place = "type_param" ->
           <<"PathType", "TypeBound", "TypeBoundList", "TypeParam", "GenericParamList">>
      [] place = "where" ->
           <<"PathType", "TypeBound", "TypeBoundList", "WherePred", "WhereClause">>
      [] place = "dyn" -> <<"PathType", "TypeBound", "TypeBoundList", "DynTraitType">>
      [] place = "impl" -> <<"PathType", "Impl">>
      [] OTHER -> <<"PathExpr">>

\* ast::Item::can_cast, for the nodes of the tree
IsItem(i) == tree[i].kind = "Fn"

\* .ancestors().find(|it| ast::Item::can_cast(it.kind())) from a node of the
\* signature of the item that holds n, or of a statement inside it
enclosing_item(n) ==
    LET items == SelectSeq(Ancestors(tree[n].parent), IsItem)
    IN  IF items = <<>> THEN None ELSE Some(NodeRange(items[1]))

\* the closure trait_item_use_scope: the text range of the scope in which the
\* usages of the trait's items are searched
trait_item_use_scope(token) ==
    LET above == IF tree[token.node].kind = "NameRef"
                 THEN PathParents(tree[token.node].mod) ELSE <<>>
    IN  IF above = <<>> THEN None
        ELSE IF above[1] = "UseTree" THEN Some(<<0, Len(toks)>>)
        ELSE IF above[1] = "PathType"
        THEN IF Len(above) < 3 \/ above[3] # "TypeBoundList" THEN None
             ELSE IF Len(above) < 4 \/ above[4] \notin {"WhereClause", "TypeParam"} THEN None
             ELSE enclosing_item(token.node)
        ELSE None

\* `highlight trait usages`: the usages of the trait's items inside the scope
trait_item_hls(def, token, file_id) ==
    LET scope == trait_item_use_scope(token)
    IN  IF sema.defs[def].kind = "Trait" /\ scope.some
        THEN UNION {Range(Flatten(SeqMap(RefHl, usages(item, file_id, scope)))) :
                       item \in Range(sema.defs[def].items)}
        ELSE {}

\* `highlight the defs themselves`
def_hls(def, file_id) ==
    IF sema.defs[def].kind = "Local"
    THEN Range(decl_hls(def, file_id, mut_category(def)))
    ELSE IF sema.defs[def].kind # "Module" /\ ~sema.defs[def].nav THEN {}
    ELSE Range(decl_hls(def, file_id,
                 IF sema.defs[def].kind = "Local" /\ sema.defs[def].mut
                 THEN "Write" ELSE "None"))

\* an analyzer that returns whatever it collected, empty or not
highlight_references_as_collected(token, file_id) ==
    LET defs == ref_defs(token)
        usage_hls == UNION {Range(Flatten(SeqMap(RefHl, usages(d, file_id, None)))) : d \in defs}
        res == UNION {trait_item_hls(d, token, file_id) \cup def_hls(d, file_id) : d \in defs}
                 \cup usage_hls
    IN  IF sema.fmt.some /\ sema.fmt.v.def = 0
        THEN Some(<<HighlightedRange(sema.fmt.v.range, "None")>>)
        ELSE Some(SetToSeq(res))

highlight_references(token, file_id) ==
    LET defs == ref_defs(token)
        usage_hls == UNION {Range(Flatten(SeqMap(RefHl, usages(d, file_id, None)))) : d \in defs}
        res == UNION {trait_item_hls(d, token, file_id) \cup def_hls(d, file_id) : d \in defs}
                 \cup usage_hls
    IN  IF sema.fmt.some /\ sema.fmt.v.def = 0
        THEN Some(<<HighlightedRange(sema.fmt.v.range, "None")>>)
        ELSE IF res = {} THEN None
        ELSE Some(SetToSeq(res))

-----------------------------------------------------------------------------
(* highlight_related: the dispatcher                                       *)

\* struct HighlightRelatedConfig
Config(references, exit_points, break_points, closure_captures, yield_points) ==
    [references |-> references, exit_points |-> exit_points,
     break_points |-> break_points, closure_captures |-> closure_captures,
     yield_points |-> yield_points]
ENABLED_CONFIG == Config(TRUE, TRUE, TRUE, TRUE, TRUE)
AllConfigs ==
    [references : BOOLEAN, exit_points : BOOLEAN, break_points : BOOLEAN,
     closure_captures : BOOLEAN, yield_points : BOOLEAN]

\* a priority that puts identifiers above `?` and `->`
priority_ident_first(kind) ==
    CASE kind \in {"IDENT", "INT_NUMBER"} -> 4
      [] kind \in Keywords -> 3
      [] kind \in {"?", "->"} -> 2
      [] kind = "|" -> 1
      [] OTHER -> 0

\* the priority pick_best_token is given
priority(kind) ==
    CASE kind \in {"?", "->"} -> 4
      [] kind \in Keywords -> 3
      [] kind \in {"IDENT", "INT_NUMBER"} -> 2
      [] kind = "|" -> 1
      [] OTHER -> 0

\* pick_best_token: max_by_key over the tokens at the offset, the last of equal keys
pick_best_token(cands) ==
    IF cands = <<>> THEN None
    ELSE Some(cands[CHOOSE k \in 1..Len(cands) :
                 /\ \A j \in 1..Len(cands) :
                        priority(TokenKind(cands[j])) <= priority(TokenKind(cands[k]))
                 /\ \A j \in (k + 1)..Len(cands) :
                        priority(TokenKind(cands[j])) < priority(TokenKind(cands[k]))])

\* a match that tries the references arm first
dispatch_references_first(config, token) ==
    LET kind == TokenKind(token)
        pk == tree[token.node].kind
    IN  CASE config.references -> "references"
          [] kind = "?" /\ config.exit_points /\ pk = "TryExpr" -> "exit_points"
          [] kind \in {"fn", "return", "->"} /\ config.exit_points -> "exit_points"
          [] kind \in {"await", "async"} /\ config.yield_points -> "yield_points"
          [] kind = "for" /\ config.break_points /\ pk = "ForExpr" -> "break_points"
          [] kind \in {"break", "loop", "while", "continue"} /\ config.break_points ->
               "break_points"
          [] kind \in {"|", "move"} /\ config.closure_captures -> "closure_captures"
          [] OTHER -> "none"

\* a match that forgets the guards on the parent of `?` and of `for`
dispatch_any_question_mark(config, token) ==
    LET kind == TokenKind(token)
    IN  CASE kind \in {"?", "fn", "return", "->"} /\ config.exit_points -> "exit_points"
          [] kind \in {"await", "async"} /\ config.yield_points -> "yield_points"
          [] kind \in {"for", "break", "loop", "while", "continue"} /\ config.break_points ->
               "break_points"
          [] kind \in {"|", "move"} /\ config.closure_captures -> "closure_captures"
          [] config.references -> "references"
          [] OTHER -> "none"

\* the arm of the `match token.kind()` that is taken
dispatch(config, token) ==
    LET kind == TokenKind(token)
        pk == tree[token.node].kind
    IN  CASE kind = "?" /\ config.exit_points /\ pk = "TryExpr" -> "exit_points"
          [] kind \in {"fn", "return", "->"} /\ config.exit_points -> "exit_points"
          [] kind \in {"await", "async"} /\ config.yield_points -> "yield_points"
          [] kind = "for" /\ config.break_points /\ pk = "ForExpr" -> "break_points"
          [] kind \in {"break", "loop", "while", "continue"} /\ config.break_points ->
               "break_points"
          [] kind = "|" /\ config.closure_captures -> "closure_captures"
          [] kind = "move" /\ config.closure_captures -> "closure_captures"
          [] config.references -> "references"
          [] OTHER -> "none"

\* the analyzer of an arm, run on the token
analyze(arm, token, file_id) ==
    CASE arm = "exit_points" -> highlight_exit_points(token)
      [] arm = "yield_points" -> highlight_yield_points(token)
      [] arm = "break_points" -> highlight_break_points(token)
      [] arm = "closure_captures" -> highlight_closure_captures(token, file_id)
      [] arm = "references" -> highlight_references(token, file_id)
      [] OTHER -> None

\* highlight_related(sema, config, pos): the analyzers invoked and the result
highlight_related(config, cands, file_id) ==
    LET token == pick_best_token(cands)
        arm == dispatch(config, token.v)
    IN  IF ~token.some THEN [called |-> <<>>, result |-> None]
        ELSE IF arm = "none" THEN [called |-> <<>>, result |-> None]
        ELSE [called |-> <<arm>>, result |-> analyze(arm, token.v, file_id)]

-----------------------------------------------------------------------------
(* The tokens of the file in text order, and the tokens at an offset.      *)

\* token_at_offset: one token when the offset is inside token k, two when it is
\* on the boundary between token k and the next
token_at_offset(k, boundary) ==
    IF boundary /\ k < Len(toks) THEN <<toks[k], toks[k + 1]>> ELSE <<toks[k]>>

-----------------------------------------------------------------------------
(* Putting a file together: the parser appends nodes in preorder.          *)

IsExprKind(k) == k \notin {"Fn", "Impl"}

\* node p can take t as its next child in slot sl
CanAdopt(p, t, sl) ==
    LET pk == tree[p].kind
        cs == ChildrenOf(p)
    IN  CASE pk = "Fn" -> tree[p].flag /\ sl = "body"
          [] pk \in {"BlockExpr", "LoopExpr"} -> sl = "body"
          [] pk \in {"WhileExpr", "ForExpr"} ->
               IF sl = "cond" THEN cs = <<>> /\ IsExprKind(t.kind) ELSE TRUE
          [] pk = "IfExpr" ->
               /\ sl = "body" /\ Len(cs) < 2
               /\ t.kind = "BlockExpr" /\ t.mod = "none" /\ t.lbl = 0
          [] pk = "MatchExpr" -> sl = "body" /\ IsExprKind(t.kind)
          [] pk \in {"ClosureExpr", "TryExpr", "AwaitExpr"} ->
               sl = "body" /\ cs = <<>> /\ IsExprKind(t.kind)
          [] OTHER -> FALSE

AddNode(templates, maxNodes) ==
    /\ pc = "build"
    /\ Len(tree) < maxNodes + 1
    /\ \E t \in templates, p \in OpenNodes \ {0}, sl \in {"body", "cond"} :
          /\ CanAdopt(p, t, sl)
          /\ LET grown == Append(tree, [t EXCEPT !.parent = p, !.slot = sl])
             IN  tree' = grown /\ toks' = FileToks(grown)
    /\ UNCHANGED <<sema, pc, req, called, result>>

NoReq == [cands |-> <<>>, config |-> Config(FALSE, FALSE, FALSE, FALSE, FALSE)]

\* one request: highlight_related at the offset, under the configuration
Request(cands, config) ==
    /\ pc = "build"
    /\ LET r == highlight_related(config, cands, FileId)
       IN  /\ called' = r.called
           /\ result' = r.result
    /\ req' = [cands |-> cands, config |-> config]
    /\ pc' = "done"
    /\ UNCHANGED <<tree, sema, toks>>

\* the single positions inside a token whose kind is in kinds
SinglePositions(kinds) ==
    {<<toks[k]>> : k \in {j \in 1..Len(toks) : TokenKind(toks[j]) \in kinds}}

InitWith(t, s) ==
    /\ tree = t
    /\ toks = FileToks(t)
    /\ sema = s
    /\ pc = "build"
    /\ req = NoReq
    /\ called = <<>>
    /\ result = None

-----------------------------------------------------------------------------
(* Break points: loops, labeled blocks, break and continue inside one      *)
(* function; the cursor on a loop keyword, a `break` or a `continue`.      *)

BreakTemplates ==
    {Node(k, l, "none", FALSE, FALSE) :
        k \in LoopKinds \cup {"BlockExpr", "BreakExpr", "ContinueExpr"}, l \in 0..NumLabels}

InitBreak == InitWith(<<Node("Fn", 0, "none", TRUE, FALSE)>>, NoSema)

BreakAddNode == AddNode(BreakTemplates, MaxBreakNodes)

BreakRequest ==
    \E cands \in SinglePositions({"for", "while", "loop", "break", "continue"}) :
        Request(cands, ENABLED_CONFIG)

NextBreak == BreakAddNode \/ BreakRequest

SpecBreak == InitBreak /\ [][NextBreak]_vars

-----------------------------------------------------------------------------
(* Exit points: one function, with or without a body, holding returns, `?`, *)
(* calls, blocks, a loop, if/match and nested closures, functions and       *)
(* async/try/const blocks; the cursor on `fn`, `->`, `return` or `?`.       *)

ExitTemplates ==
    {Node("ReturnExpr", 0, "none", f, FALSE) : f \in BOOLEAN}
    \cup {Node("CallExpr", 0, "none", f, FALSE) : f \in BOOLEAN}
    \cup {Node(k, 0, "none", TRUE, FALSE) : k \in {"MethodCallExpr", "MacroExpr"}}
    \cup {Node(k, 0, "none", FALSE, FALSE) :
            k \in {"TryExpr", "Literal", "BreakExpr", "LoopExpr", "IfExpr", "MatchExpr",
                   "ClosureExpr"}}
    \cup {Node("BlockExpr", 0, "none", FALSE, tl) : tl \in BOOLEAN}
    \cup {Node("BlockExpr", 0, m, FALSE, TRUE) : m \in {"unsafe"} \cup AsyncTryConst}
    \cup {Node("Fn", 0, "none", TRUE, TRUE)}

InitExit ==
    \E body \in BOOLEAN, tl \in BOOLEAN :
        /\ (tl => body)
        /\ InitWith(<<Node("Fn", 0, "none", body, tl)>>, NoSema)

ExitAddNode == AddNode(ExitTemplates, MaxExitNodes)

ExitRequest ==
    \E cands \in SinglePositions({"fn", "->", "return", "?"}) :
        Request(cands, ENABLED_CONFIG)

NextExit == ExitAddNode \/ ExitRequest

SpecExit == InitExit /\ [][NextExit]_vars

-----------------------------------------------------------------------------
(* The dispatcher: one function holding up to two constructs that carry    *)
(* every token kind the match looks at; every token of the file under      *)
(* every configuration.                                                    *)

DispatchTemplates ==
    {Node(k, 0, "none", FALSE, FALSE) :
        k \in {"Impl", "ForExpr", "LoopExpr", "WhileExpr", "BreakExpr", "ContinueExpr",
               "ReturnExpr", "TryExpr", "AwaitExpr", "MacroExpr", "ClosureExpr",
               "PathExpr", "Literal"}}
    \cup {Node("Fn", 0, "async", TRUE, FALSE),
          Node("BlockExpr", 0, "async", FALSE, FALSE),
          Node("ClosureExpr", 0, "move", FALSE, FALSE)}

\* one local, declared and read in the file, that every identifier resolves to and
\* every closure captures
DispatchSema ==
    [defs |-> <<[kind |-> "Local", mut |-> TRUE, nav |-> TRUE,
                 navs |-> <<[file_id |-> FileId, focus |-> Some(<<1, 2>>)]>>,
                 refs |-> <<[file_id |-> FileId, range |-> <<8, 9>>, category |-> "Read"]>>,
                 items |-> <<>>]>>,
     find_defs |-> {1}, fmt |-> None,
     closure_ty |-> TRUE, captures |-> <<1>>]

InitDispatch == InitWith(<<Node("Fn", 0, "none", TRUE, FALSE)>>, DispatchSema)

DispatchAddNode == AddNode(DispatchTemplates, MaxDispatchNodes)

\* the cursor inside a token or between two tokens
DispatchRequest ==
    \E k \in 1..Len(toks), boundary \in BOOLEAN, config \in AllConfigs :
        Request(token_at_offset(k, boundary), config)

NextDispatch == DispatchAddNode \/ DispatchRequest

SpecDispatch == InitDispatch /\ [][NextDispatch]_vars

-----------------------------------------------------------------------------
(* Yield points: a function, async or not, holding awaits, blocks with and *)
(* without a modifier, closures and nested functions; the cursor on        *)
(* `async` or `await`.                                                     *)

YieldTemplates ==
    {Node("Fn", 0, m, TRUE, FALSE) : m \in {"none", "async"}}
    \cup {Node("ClosureExpr", 0, m, FALSE, FALSE) : m \in {"none", "async"}}
    \cup {Node("BlockExpr", 0, m, FALSE, FALSE) : m \in {"none", "async", "try"}}
    \cup {Node(k, 0, "none", FALSE, FALSE) : k \in {"AwaitExpr", "Literal"}}

InitYield ==
    \E m \in {"none", "async"} : InitWith(<<Node("Fn", 0, m, TRUE, FALSE)>>, NoSema)

YieldAddNode == AddNode(YieldTemplates, MaxYieldNodes)

YieldRequest ==
    \E cands \in SinglePositions({"async", "await"}) : Request(cands, ENABLED_CONFIG)

NextYield == YieldAddNode \/ YieldRequest

SpecYield == InitYield /\ [][NextYield]_vars

-----------------------------------------------------------------------------
(* What the semantic database may answer: definitions that are mutable or  *)
(* immutable locals, statics (mutable or not, navigable or not) or modules,*)
(* declared at one or two places of which one may lie in another file or   *)
(* carry no focus range, and referenced in this file and in another.       *)

Nav(file_id, focus) == [file_id |-> file_id, focus |-> focus]
Ref(file_id, range, category) == [file_id |-> file_id, range |-> range, category |-> category]

NavChoices ==
    {<<Nav(FileId, Some(<<1, 2>>)), Nav(FileId, Some(<<5, 6>>))>>,
     <<Nav(FileId, Some(<<1, 2>>)), Nav(OtherFile, Some(<<5, 6>>))>>,
     <<Nav(FileId, None)>>}
RefChoices ==
    {<<>>,
     <<Ref(FileId, <<12, 13>>, "Read"), Ref(OtherFile, <<16, 17>>, "Write")>>,
     <<Ref(FileId, <<9, 10>>, "None"), Ref(FileId, <<16, 17>>, "Write")>>,
     <<Ref(FileId, <<1, 2>>, "Write"), Ref(FileId, <<12, 13>>, "Import")>>}
LocalFlavours == {[kind |-> "Local", mut |-> m, nav |-> TRUE] : m \in BOOLEAN}
OtherFlavours ==
    {[kind |-> "Other", mut |-> m, nav |-> TRUE] : m \in BOOLEAN}
    \cup {[kind |-> "Other", mut |-> FALSE, nav |-> FALSE],
          [kind |-> "Module", mut |-> FALSE, nav |-> FALSE]}
DefChoices(flavours) ==
    {[kind |-> f.kind, mut |-> f.mut, nav |-> f.nav, navs |-> n, refs |-> r, items |-> <<>>] :
        f \in flavours, n \in NavChoices, r \in RefChoices}
DefSeqs(flavours) == UNION {[1..n -> DefChoices(flavours)] : n \in 1..MaxDefs}

-----------------------------------------------------------------------------
(* References: a function that uses a name; the cursor on an identifier    *)
(* that resolves to some of the definitions, or inside a format string.    *)

Child(n, p) == [n EXCEPT !.parent = p]

RefsTree ==
    <<Node("Fn", 0, "none", TRUE, FALSE), Child(Node("PathExpr", 0, "none", FALSE, FALSE), 1)>>

InitRefs ==
    \E ds \in DefSeqs(LocalFlavours \cup OtherFlavours) :
        \E fd \in SUBSET (1..Len(ds)),
           fm \in {None, Some([range |-> <<7, 8>>, def |-> 0]),
                   Some([range |-> <<7, 8>>, def |-> 1])} :
            InitWith(RefsTree,
                     [defs |-> ds, find_defs |-> fd, fmt |-> fm,
                      closure_ty |-> FALSE, captures |-> <<>>])

RefsRequest == \E cands \in SinglePositions({"IDENT"}) : Request(cands, ENABLED_CONFIG)

NextRefs == RefsRequest

SpecRefs == InitRefs /\ [][NextRefs]_vars

-----------------------------------------------------------------------------
(* Closure captures: closures with a block body, an expression body or no  *)
(* body, capturing locals that are used inside and outside the body; the   *)
(* cursor on `|` or `move`.                                                *)

ClosureTrees ==
    {<<Node("Fn", 0, "none", TRUE, FALSE),
       Child(Node("ClosureExpr", 0, "none", FALSE, FALSE), 1),
       Child(Node("PathExpr", 0, "none", FALSE, FALSE), 2)>>,
     <<Node("Fn", 0, "none", TRUE, FALSE),
       Child(Node("ClosureExpr", 0, "move", FALSE, FALSE), 1),
       Child(Node("BlockExpr", 0, "none", FALSE, FALSE), 2),
       Child(Node("PathExpr", 0, "none", FALSE, FALSE), 3)>>,
     <<Node("Fn", 0, "none", TRUE, FALSE),
       Child(Node("ClosureExpr", 0, "none", FALSE, FALSE), 1)>>,
     <<Node("Fn", 0, "none", TRUE, FALSE),
       Child(Node("PathExpr", 0, "none", FALSE, FALSE), 1),
       Child(Node("ClosureExpr", 0, "none", FALSE, FALSE), 1),
       Child(Node("BlockExpr", 0, "none", FALSE, TRUE), 3),
       Child(Node("PathExpr", 0, "none", FALSE, FALSE), 4),
       Child(Node("PathExpr", 0, "none", FALSE, FALSE), 1)>>}

CaptureLists(n) == UNION {[1..k -> 1..n] : k \in 0..MaxCaptures}

InitClosure ==
    \E t \in ClosureTrees, ds \in DefSeqs(LocalFlavours), ty \in BOOLEAN :
        \E cs \in CaptureLists(Len(ds)) :
            InitWith(t, [defs |-> ds, find_defs |-> {}, fmt |-> None,
                         closure_ty |-> ty, captures |-> cs])

ClosureRequest == \E cands \in SinglePositions({"|", "move"}) : Request(cands, ENABLED_CONFIG)

NextClosure == ClosureRequest

SpecClosure == InitClosure /\ [][NextClosure]_vars

-----------------------------------------------------------------------------
(* Traits: two functions; the first names a trait at some place and uses   *)
(* an associated item, the second uses one too. The cursor is on an        *)
(* identifier that resolves to the trait, to one of its items, or to none. *)

Places == {"use", "type_param", "where", "dyn", "impl", "expr"}

TraitTree(place) ==
    <<Node("Fn", 0, "none", TRUE, FALSE),
      Child(Node("NameRef", 0, place, FALSE, FALSE), 1),
      Child(Node("PathExpr", 0, "none", FALSE, FALSE), 1),
      Node("Fn", 0, "none", TRUE, FALSE),
      Child(Node("PathExpr", 0, "none", FALSE, FALSE), 4)>>

TraitRefChoices ==
    {<<Ref(FileId, <<7, 8>>, "None")>>,
     <<Ref(FileId, <<7, 8>>, "None"), Ref(OtherFile, <<7, 8>>, "None")>>}
ItemRefChoices ==
    {<<>>,
     <<Ref(FileId, <<9, 10>>, "Read"), Ref(FileId, <<19, 20>>, "Read")>>,
     <<Ref(FileId, <<9, 10>>, "None"), Ref(OtherFile, <<9, 10>>, "Write")>>,
     <<Ref(FileId, <<19, 20>>, "Write")>>}
TraitDef(navs, refs, items) ==
    [kind |-> "Trait", mut |-> FALSE, nav |-> TRUE, navs |-> navs, refs |-> refs,
     items |-> items]
ItemDef(refs) ==
    [kind |-> "Other", mut |-> FALSE, nav |-> TRUE, navs |-> <<>>, refs |-> refs,
     items |-> <<>>]

InitTrait ==
    \E place \in Places, navs \in NavChoices, refs \in TraitRefChoices,
       items \in {<<>>, <<2>>, <<2, 3>>}, r2 \in ItemRefChoices, r3 \in ItemRefChoices,
       fd \in {{}, {1}, {2}} :
        InitWith(TraitTree(place),
                 [defs |-> <<TraitDef(navs, refs, items), ItemDef(r2), ItemDef(r3)>>,
                  find_defs |-> fd, fmt |-> None, closure_ty |-> FALSE,
                  captures |-> <<>>])

TraitRequest == \E cands \in SinglePositions({"IDENT"}) : Request(cands, ENABLED_CONFIG)

NextTrait == TraitRequest

SpecTrait == InitTrait /\ [][NextTrait]_vars

-----------------------------------------------------------------------------
(* Tail loops: one function whose body ends in a value and holds loops,    *)
(* while loops and blocks, labeled or not, breaks with an operand, labeled *)
(* or not, and literals; the cursor on `fn` or `->`.                       *)

TailTemplates ==
    {Node(k, l, "none", FALSE, FALSE) : k \in {"LoopExpr", "WhileExpr"}, l \in 0..NumLabels}
    \cup {Node("BlockExpr", l, "none", FALSE, TRUE) : l \in 0..NumLabels}
    \cup {Node("BreakExpr", l, "none", TRUE, FALSE) : l \in 0..NumLabels}
    \cup {Node("Literal", 0, "none", FALSE, FALSE)}

InitTail == InitWith(<<Node("Fn", 0, "none", TRUE, TRUE)>>, NoSema)

TailAddNode == AddNode(TailTemplates, MaxTailNodes)

TailRequest == \E cands \in SinglePositions({"fn", "->"}) : Request(cands, ENABLED_CONFIG)

NextTail == TailAddNode \/ TailRequest

SpecTail == InitTail /\ [][NextTail]_vars

-----------------------------------------------------------------------------
(* Picking the token: a function whose body is `ident?`, `ident.await`,    *)
(* `ident.await?`, a closure or a loop with a break; the cursor inside     *)
(* every token and between every two, under every configuration.           *)

PickTrees ==
    {<<Node("Fn", 0, "none", TRUE, tl),
       Child(Node(k, 0, "none", FALSE, FALSE), 1),
       Child(Node("PathExpr", 0, "none", FALSE, FALSE), 2)>> :
        k \in {"TryExpr", "AwaitExpr", "ClosureExpr"}, tl \in BOOLEAN}
    \cup {<<Node("Fn", 0, "none", TRUE, FALSE),
            Child(Node("TryExpr", 0, "none", FALSE, FALSE), 1),
            Child(Node("AwaitExpr", 0, "none", FALSE, FALSE), 2),
            Child(Node("PathExpr", 0, "none", FALSE, FALSE), 3)>>,
          <<Node("Fn", 0, "async", TRUE, FALSE),
            Child(Node("LoopExpr", 0, "none", FALSE, FALSE), 1),
            Child(Node("BreakExpr", 0, "none", TRUE, FALSE), 2)>>}

InitPick == \E t \in PickTrees : InitWith(t, DispatchSema)

PickRequest ==
    \E k \in 1..Len(toks), boundary \in BOOLEAN, config \in AllConfigs :
        Request(token_at_offset(k, boundary), config)

NextPick == PickRequest

SpecPick == InitPick /\ [][NextPick]_vars

-----------------------------------------------------------------------------
(* References and closure captures side by side: the files and databases   *)
(* of both, the cursor on an identifier, a `|` or a `move`.                *)

InitNorm == InitRefs \/ InitClosure

NextNorm == RefsRequest \/ ClosureRequest

SpecNorm == InitNorm /\ [][NextNorm]_vars

-----------------------------------------------------------------------------
(* What the claims speak of.                                               *)

\* the token the request picked
Cursor == pick_best_token(req.cands).v
\* the ranges of the result
ResultRanges == {result.v[k].range : k \in 1..Len(result.v)}
Served(arm) == pc = "done" /\ called = <<arm>>

\* a loop or a labeled block
IsBreakConstruct(a) ==
    tree[a].kind \in LoopKinds \/ (tree[a].kind = "BlockExpr" /\ tree[a].lbl > 0)
\* the constructs around the cursor that the cursor's label admits
BreakCandidates ==
    {a \in Nodes : /\ (a = Cursor.node \/ IsBelow(Cursor.node, a))
                   /\ IsBreakConstruct(a)
                   /\ (tree[Cursor.node].lbl = 0 \/ tree[a].lbl = tree[Cursor.node].lbl)}
\* the innermost of them
BreakTarget == CHOOSE a \in BreakCandidates : \A b \in BreakCandidates : b = a \/ IsBelow(a, b)

\* d is inside the body of construct t, not in its condition or iterable
InBodyOf(d, t) ==
    \E c \in Nodes : tree[c].parent = t /\ tree[c].slot = "body" /\ (d = c \/ IsBelow(d, c))
\* a nested loop or labeled block lies between d and t
Shielded(d, t) == \E a \in Nodes : IsBelow(d, a) /\ IsBelow(a, t) /\ IsBreakConstruct(a)
\* (a) unlabeled and not inside a nested construct, or (b) carrying t's label
Targets(d, t) ==
    /\ tree[d].kind \in {"BreakExpr", "ContinueExpr"}
    /\ InBodyOf(d, t)
    /\ \/ (tree[d].lbl = 0 /\ ~Shielded(d, t))
       \/ (tree[d].lbl > 0 /\ tree[d].lbl = tree[t].lbl)
\* the kinds of expression a cursor token collects
Collects(kind) ==
    CASE kind = "break" -> {"BreakExpr"}
      [] kind = "continue" -> {"ContinueExpr"}
      [] OTHER -> {"BreakExpr", "ContinueExpr"}
\* keyword plus label of a break/continue
KeywordRange(d) ==
    LET kw == IF tree[d].kind = "BreakExpr" THEN "break" ELSE "continue"
    IN  <<TokRange(d, kw)[1], TokRange(d, kw)[2] + (IF tree[d].lbl > 0 THEN 1 ELSE 0)>>
\* the anchor of a construct: label and keyword
AnchorRange(t) ==
    IF tree[t].lbl > 0
    THEN <<TokRange(t, "lifetime")[1],
           TokRange(t, "lifetime")[1] + (IF tree[t].kind = "BlockExpr" THEN 2 ELSE 3)>>
    ELSE TokRange(t, LoopKeyword(t))

\* C4 (a), (b): the result is the anchor and exactly the targeting expressions of
\* the kinds the cursor collects
BreakSetExact ==
    (Served("break_points") /\ result.some) =>
        ResultRanges = {AnchorRange(BreakTarget)} \cup
            {KeywordRange(d) : d \in {e \in Nodes :
                Targets(e, BreakTarget) /\ tree[e].kind \in Collects(TokenKind(Cursor))}}

\* C4, second sentence: a break labeled with the label of an outer construct is in
\* the set of that construct
OuterLabelIncluded ==
    (Served("break_points") /\ result.some) =>
        \A d \in Nodes :
            (/\ tree[d].kind \in Collects(TokenKind(Cursor))
             /\ InBodyOf(d, BreakTarget)
             /\ tree[d].lbl > 0 /\ tree[d].lbl = tree[BreakTarget].lbl)
            => KeywordRange(d) \in ResultRanges

\* C4, second sentence as written: ... and in the set of no inner construct
C4_Original ==
    /\ BreakSetExact
    /\ OuterLabelIncluded
    /\ (Served("break_points") /\ result.some) =>
          \A d \in Nodes, o \in Nodes :
              (/\ tree[d].kind \in {"BreakExpr", "ContinueExpr"}
               /\ IsBelow(d, BreakTarget) /\ IsBelow(BreakTarget, o)
               /\ IsBreakConstruct(o)
               /\ tree[d].lbl > 0 /\ tree[d].lbl = tree[o].lbl)
              => KeywordRange(d) \notin ResultRanges

\* C4 as amended: for any nesting of loops and labeled blocks the set computed for
\* construct T is exactly (a) the unlabeled break/continue of T's body outside
\* nested loops and labeled blocks and (b) those carrying T's label at any depth;
\* a break labeled with an outer construct's label is in the outer construct's set
\* and in the set of no inner construct that carries a different label
C4_BreakSet ==
    /\ BreakSetExact
    /\ OuterLabelIncluded
    /\ (Served("break_points") /\ result.some) =>
          \A d \in Nodes, o \in Nodes :
              (/\ tree[d].kind \in {"BreakExpr", "ContinueExpr"}
               /\ IsBelow(d, BreakTarget) /\ IsBelow(BreakTarget, o)
               /\ IsBreakConstruct(o)
               /\ tree[d].lbl > 0 /\ tree[d].lbl = tree[o].lbl
               /\ tree[BreakTarget].lbl # tree[d].lbl)
              => KeywordRange(d) \notin ResultRanges

\* a labeled break under a nested construct of another label was collected for the
\* outer construct
C4_Witness ==
    /\ Served("break_points") /\ result.some
    /\ \E d \in Nodes, a \in Nodes :
          /\ tree[d].kind = "BreakExpr" /\ tree[d].lbl > 0
          /\ tree[d].lbl = tree[BreakTarget].lbl
          /\ IsBelow(d, a) /\ IsBelow(a, BreakTarget) /\ IsBreakConstruct(a)
          /\ tree[a].lbl # tree[d].lbl
          /\ KeywordRange(d) \in ResultRanges

\* C5: the kind of expression collected depends only on the kind of the cursor
\* token: `break` collects the targeting breaks and no continue, `continue` the
\* targeting continues and no break, `for`/`while`/`loop` both
C5_KindFilter ==
    (Served("break_points") /\ result.some) =>
        LET kind == TokenKind(Cursor)
            targeting(k) == {d \in Nodes : Targets(d, BreakTarget) /\ tree[d].kind = k}
            ofKind(k) == {d \in Nodes : tree[d].kind = k}
        IN  /\ kind = "break" =>
                /\ \A d \in targeting("BreakExpr") : KeywordRange(d) \in ResultRanges
                /\ \A d \in ofKind("ContinueExpr") : KeywordRange(d) \notin ResultRanges
            /\ kind = "continue" =>
                /\ \A d \in targeting("ContinueExpr") : KeywordRange(d) \in ResultRanges
                /\ \A d \in ofKind("BreakExpr") : KeywordRange(d) \notin ResultRanges
            /\ kind \in {"for", "while", "loop"} =>
                \A d \in targeting("BreakExpr") \cup targeting("ContinueExpr") :
                    KeywordRange(d) \in ResultRanges

\* a cursor on `break` with a targeting continue left out, next to a targeting break
C5_Witness ==
    /\ Served("break_points") /\ result.some
    /\ TokenKind(Cursor) = "break"
    /\ \E d \in Nodes, e \in Nodes :
          /\ Targets(d, BreakTarget) /\ tree[d].kind = "ContinueExpr"
          /\ Targets(e, BreakTarget) /\ tree[e].kind = "BreakExpr"
          /\ KeywordRange(d) \notin ResultRanges
          /\ KeywordRange(e) \in ResultRanges

-----------------------------------------------------------------------------
(* Exit points.                                                            *)

\* a function, a closure or an async/try/const block
IsExitScopeNode(a) ==
    \/ tree[a].kind \in {"Fn", "ClosureExpr"}
    \/ (tree[a].kind = "BlockExpr" /\ tree[a].mod \in {"async", "try", "const"})
\* the nearest exit scope at or around node i, 0 if none
NearestScope(i) ==
    LET around == {a \in Nodes : (a = i \/ IsBelow(i, a)) /\ IsExitScopeNode(a)}
    IN  IF around = {} THEN 0
        ELSE CHOOSE a \in around : \A b \in around : b = a \/ IsBelow(a, b)
\* the nearest exit scope strictly around node d
ScopeAround(d) == NearestScope(tree[d].parent)
\* the scope the cursor is in
CursorScope == NearestScope(Cursor.node)
\* the scope has a body
HasBody(a) ==
    CASE tree[a].kind = "Fn" -> tree[a].flag
      [] tree[a].kind = "ClosureExpr" -> \E c \in Nodes : tree[c].parent = a
      [] OTHER -> TRUE
\* the anchor highlights of a scope: `fn`, or the modifier of the block; a closure
\* written with `|..|` has no parentheses to highlight
ScopeAnchors(a) ==
    CASE tree[a].kind = "Fn" -> {TokRange(a, "fn")}
      [] tree[a].kind = "ClosureExpr" -> {}
      [] OTHER -> {TokRange(a, tree[a].mod)}
\* how often a range occurs in the result
Occurrences(r) == Cardinality({k \in 1..Len(result.v) : result.v[k].range = r})

\* C1: when the nearest enclosing exit scope has no body, the result is Some
\* of exactly the anchor highlights of the scope
C1_AnchorOnly ==
    (Served("exit_points") /\ CursorScope # 0 /\ ~HasBody(CursorScope)) =>
        /\ result.some
        /\ ResultRanges = ScopeAnchors(CursorScope)

\* C2: a returned collection holds no two entries with the same (range, category)
C2_NoDuplicates ==
    (pc = "done" /\ result.some) =>
        \A j \in 1..Len(result.v), k \in 1..Len(result.v) :
            j # k => result.v[j] # result.v[k]

IsTrailing(d, p) ==
    /\ tree[p].tail /\ tree[d].parent = p /\ tree[d].kind # "Fn"
    /\ \A c \in Nodes : tree[c].parent = p => c <= d
\* the value of d is the value of its parent
PassesValue(d, scope) ==
    LET p == tree[d].parent
    IN  CASE p = scope ->
               IF tree[p].kind = "ClosureExpr" THEN TRUE ELSE IsTrailing(d, p)
          [] tree[p].kind \in {"IfExpr", "MatchExpr"} -> TRUE
          [] tree[p].kind = "BlockExpr" ->
               tree[p].mod \notin {"async", "try", "const"} /\ IsTrailing(d, p)
          [] OTHER -> FALSE
\* d is in tail position of the scope
InTailPosition(d, scope) ==
    /\ IsBelow(d, scope)
    /\ \A c \in Nodes :
          (c = d \/ (IsBelow(d, c) /\ IsBelow(c, scope))) => PassesValue(c, scope)
\* the expressions that stand for their parts in tail position
IsTailBranching(d) ==
    \/ tree[d].kind \in {"IfExpr", "MatchExpr"} \cup LoopKinds
    \/ (tree[d].kind = "BlockExpr" /\ tree[d].mod \notin {"async", "try", "const"})
\* what the claim lists for the scope
ExitReturns(scope) ==
    {TokRange(d, "return") : d \in {n \in Nodes : tree[n].kind = "ReturnExpr"
                                                   /\ ScopeAround(n) = scope}}
ExitTries(scope) ==
    {TokRange(d, "?") : d \in {n \in Nodes : tree[n].kind = "TryExpr"
                                              /\ ScopeAround(n) = scope}}
ExitNeverCalls(scope) ==
    {NodeRange(d) : d \in {n \in Nodes :
        /\ tree[n].kind \in {"CallExpr", "MethodCallExpr", "MacroExpr"}
        /\ tree[n].flag /\ ScopeAround(n) = scope}}
ExitTailValues(scope) ==
    {NodeRange(d) : d \in {n \in Nodes :
        /\ InTailPosition(n, scope) /\ ~IsTailBranching(n)
        /\ tree[n].kind # "BreakExpr"}}
ExitTailBreaks(scope) ==
    {TokRange(d, "break") : d \in {n \in Nodes :
        /\ tree[n].kind = "BreakExpr"
        /\ \E t \in Nodes : tree[t].kind \in LoopKinds /\ InTailPosition(t, scope)
                            /\ Targets(n, t)}}
ExitExpected(scope) ==
    ExitReturns(scope) \cup ExitTries(scope) \cup ExitNeverCalls(scope)
    \cup ExitTailValues(scope) \cup ExitTailBreaks(scope)

\* C6: the exit-point result of a scope holds every `return` and `?` token of the
\* body outside nested scopes, every never-typed call, every tail-position value
\* and the `break` keyword of every break of a tail loop, each exactly once
C6_ExitContents ==
    (Served("exit_points") /\ result.some) =>
        \A r \in ExitExpected(CursorScope) : Occurrences(r) = 1

-----------------------------------------------------------------------------
(* The dispatcher.                                                         *)

\* the analyzer a token kind triggers
Trigger(tok) ==
    LET kind == TokenKind(tok)
        parent == tree[tok.node].kind
    IN  IF (kind = "?" /\ parent = "TryExpr") \/ kind \in {"fn", "return", "->"}
        THEN "exit_points"
        ELSE IF kind \in {"await", "async"} THEN "yield_points"
        ELSE IF (kind = "for" /\ parent = "ForExpr")
                \/ kind \in {"break", "loop", "while", "continue"}
        THEN "break_points"
        ELSE IF kind \in {"|", "move"} THEN "closure_captures"
        ELSE "references"
\* the analyzer the rules choose: the triggered one if its toggle is set, else the
\* references analyzer if its toggle is set, else none
Chosen(config, tok) ==
    IF config[Trigger(tok)] THEN Trigger(tok)
    ELSE IF config.references THEN "references"
    ELSE "none"

\* C3: a request invokes at most one analyzer, the one the rules choose, and
\* returns its result unchanged; a disabled trigger falls through to references
\* or to None, and with every toggle false the result is None
C3_Dispatch ==
    pc = "done" =>
        /\ Len(called) <= 1
        /\ IF Chosen(req.config, Cursor) = "none"
           THEN called = <<>> /\ result = None
           ELSE /\ called = <<Chosen(req.config, Cursor)>>
                /\ result = analyze(called[1], Cursor, FileId)
        /\ (\A f \in DOMAIN req.config : ~req.config[f]) => result = None

\* a trigger token whose analyzer is switched off is served by the references
\* analyzer, which answers None and is followed by nothing
C3_Witness ==
    /\ pc = "done"
    /\ Trigger(Cursor) # "references"
    /\ ~req.config[Trigger(Cursor)]
    /\ req.config.references
    /\ called = <<"references">>
    /\ result = None

-----------------------------------------------------------------------------
(* Yield points.                                                           *)

\* a function, a closure or an async block
IsYieldScopeNode(a) ==
    \/ tree[a].kind \in {"Fn", "ClosureExpr"}
    \/ (tree[a].kind = "BlockExpr" /\ tree[a].mod = "async")
\* the nearest such scope at or around the cursor's node
YieldScope ==
    LET i == Cursor.node
        around == {a \in Nodes : (a = i \/ IsBelow(i, a)) /\ IsYieldScopeNode(a)}
    IN  CHOOSE a \in around : \A b \in around : b = a \/ IsBelow(a, b)
\* the awaits of the scope: those in its body with no nested async block, closure
\* or function between them and the scope
OwnAwaits(scope) ==
    {d \in Nodes :
        /\ tree[d].kind = "AwaitExpr" /\ IsBelow(d, scope)
        /\ \A a \in Nodes : (IsBelow(d, a) /\ IsBelow(a, scope)) => ~IsYieldScopeNode(a)}

\* C7: the yield-point result of an asynchronous scope is its `async` token and
\* exactly the `await` tokens of its body that are not inside a nested async
\* block, closure or function
C7_YieldSet ==
    (Served("yield_points") /\ result.some) =>
        ResultRanges = {TokRange(YieldScope, "async")}
                       \cup {TokRange(d, "await") : d \in OwnAwaits(YieldScope)}

-----------------------------------------------------------------------------
(* References and closure captures.                                        *)

ResultSet == Range(result.v)
\* the declaration sites of a definition in the queried file that have a range
DeclSites(d) ==
    {nav.focus.v : nav \in {n \in Range(sema.defs[d].navs) : n.file_id = FileId /\ n.focus.some}}
\* the usages of a definition in the queried file, as the search reports them
FileUsages(d) == {r \in Range(sema.defs[d].refs) : r.file_id = FileId}
\* the definitions the cursor resolves to
Resolved ==
    IF sema.fmt.some THEN {sema.fmt.v.def} \ {0}
    ELSE IF TokenKind(Cursor) = "IDENT" THEN sema.find_defs ELSE {}
IsLocal(d) == sema.defs[d].kind = "Local"
\* Write for a mutable local, no category otherwise
DeclCategory(d) == IF IsLocal(d) /\ sema.defs[d].mut THEN "Write" ELSE "None"
UsageHighlights(ds) ==
    {HighlightedRange(r.range, r.category) : r \in UNION {FileUsages(d) : d \in ds}}
DeclHighlights(ds) ==
    UNION {{HighlightedRange(site, DeclCategory(d)) : site \in DeclSites(d)} : d \in ds}

\* C9: the references result holds every in-file declaration site of a resolved
\* local, tagged Write if and only if the local is mutable, and every in-file
\* usage with the category of the search; whatever else it holds is a declaration
\* site of a non-local definition without category
C9_References ==
    (Served("references") /\ ~(sema.fmt.some /\ sema.fmt.v.def = 0)) =>
        LET locals == {d \in Resolved : IsLocal(d)}
            expected == DeclHighlights(locals) \cup UsageHighlights(Resolved)
        IN  /\ result.some => /\ expected \subseteq ResultSet
                              /\ ResultSet \ expected \subseteq DeclHighlights(Resolved \ locals)
            /\ ~result.some => expected = {}

\* a mutable local declared once in the file and read once: the declaration as
\* Write and the usage as Read, and nothing else
C9_Witness ==
    /\ Served("references") /\ result.some
    /\ \E d \in Resolved :
          /\ IsLocal(d) /\ sema.defs[d].mut
          /\ ResultSet = {HighlightedRange(<<1, 2>>, "Write"),
                          HighlightedRange(<<12, 13>>, "Read")}

\* the closure under the cursor and the text range of its body
CursorClosure == Cursor.node
ClosureBodyRange ==
    LET body == CHOOSE c \in Nodes : tree[c].parent = CursorClosure
    IN  NodeRange(body)
Inside(r, range) == range[1] <= r[1] /\ r[2] <= range[2]
Captured == Range(sema.captures)

\* C10: the closure-capture result holds, for every captured local, its in-file
\* declaration sites and its usages inside the closure body; every other usage
\* is absent: each entry is a declaration site or a usage inside the body
C10_CapturesInBody ==
    (Served("closure_captures") /\ result.some) =>
        LET inBody == {HighlightedRange(r.range, r.category) :
                          r \in {u \in UNION {FileUsages(d) : d \in Captured} :
                                    Inside(u.range, ClosureBodyRange)}}
        IN  ResultSet = DeclHighlights(Captured) \cup inBody

\* a captured local used inside the body and, in the same file, outside of it:
\* the first usage is reported and the second is not
C10_Witness ==
    /\ Served("closure_captures") /\ result.some
    /\ \E d \in Captured : \E u \in FileUsages(d), w \in FileUsages(d) :
          /\ Inside(u.range, ClosureBodyRange)
          /\ ~Inside(w.range, ClosureBodyRange)
          /\ HighlightedRange(u.range, u.category) \in ResultSet
          /\ HighlightedRange(w.range, w.category) \notin ResultSet
          /\ DeclSites(d) # {}

-----------------------------------------------------------------------------
(* Traits and their associated items.                                      *)

\* where the name under the cursor stands
CursorPlace ==
    IF tree[Cursor.node].kind = "NameRef" THEN tree[Cursor.node].mod ELSE "expr"
\* the text range of the function around the cursor
CursorItemRange ==
    NodeRange(CHOOSE f \in Nodes :
                /\ tree[f].kind = "Fn" /\ (f = Cursor.node \/ IsBelow(Cursor.node, f))
                /\ \A g \in Nodes : (tree[g].kind = "Fn" /\ IsBelow(Cursor.node, g)) => g <= f)
ResolvedTraits == {d \in Resolved : sema.defs[d].kind = "Trait"}
\* the usages in the file of the items of the resolved traits
AssocUsages == UNION {FileUsages(i) : i \in UNION {Range(sema.defs[d].items) : d \in ResolvedTraits}}
AssocHighlightsIn(range) ==
    {HighlightedRange(r.range, r.category) : r \in {u \in AssocUsages : Inside(u.range, range)}}
TraitBase == UsageHighlights(Resolved) \cup DeclHighlights(Resolved)

\* C11: with the cursor on a trait name that is a bound of a generic parameter or
\* of a where-clause, the result is the references to the trait in the file
\* together with the usages of the trait's items inside the item that carries
\* the bound, and no usage of them outside it; with the cursor on a trait name
\* that is neither in a use tree nor such a bound, no usage of an item is added
C11_TraitItemUses ==
    (Served("references") /\ ResolvedTraits # {}) =>
        LET expected ==
              IF CursorPlace \in {"type_param", "where"}
              THEN TraitBase \cup AssocHighlightsIn(CursorItemRange)
              ELSE TraitBase
        IN  CursorPlace # "use" =>
              /\ result.some => ResultSet = expected
              /\ ~result.some => expected = {}

\* the same for the bound of a generic parameter alone
C11_TypeParamBound ==
    (Served("references") /\ ResolvedTraits # {} /\ CursorPlace # "where") =>
        LET expected ==
              IF CursorPlace = "type_param"
              THEN TraitBase \cup AssocHighlightsIn(CursorItemRange)
              ELSE TraitBase
        IN  CursorPlace # "use" =>
              /\ result.some => ResultSet = expected
              /\ ~result.some => expected = {}

\* the cursor on the trait of a where-clause bound, an item of the trait used
\* inside the function, and the usage missing from the result
C11_WhereBoundMissed ==
    /\ Served("references") /\ ResolvedTraits # {} /\ CursorPlace = "where"
    /\ result.some
    /\ AssocHighlightsIn(CursorItemRange) \ ResultSet # {}

-----------------------------------------------------------------------------
(* The references toggle and the other features.                           *)

\* the configuration of the request with the references toggle flipped
FlippedReferences == [req.config EXCEPT !.references = ~@]
\* the cursor's token triggers another analyzer than references, and that
\* analyzer's toggle is set
RoutedElsewhere == Trigger(Cursor) # "references" /\ req.config[Trigger(Cursor)]

\* C12: when the cursor's token is routed to the exit-point, yield-point,
\* break-point or closure-capture analyzer, the same request with the references
\* toggle flipped has the same result; and with references disabled a cursor on
\* an identifier has no highlights
C12_ReferencesToggle ==
    pc = "done" =>
        /\ RoutedElsewhere =>
              highlight_related(FlippedReferences, req.cands, FileId).result = result
        /\ (~req.config.references /\ TokenKind(Cursor) = "IDENT") => result = None

\* a request with references disabled that another analyzer answers with
\* highlights, the same as it answers with references enabled
C12_Witness ==
    /\ pc = "done" /\ ~req.config.references /\ RoutedElsewhere /\ result.some
    /\ highlight_related(FlippedReferences, req.cands, FileId).result = result

\* references disabled, the cursor on an identifier of a function that holds a
\* loop, and the break-point feature enabled
C12_IdentWitness ==
    /\ pc = "done" /\ ~req.config.references /\ req.config.break_points
    /\ TokenKind(Cursor) = "IDENT" /\ result = None
    /\ \E n \in Nodes : tree[n].kind = "LoopExpr"

-----------------------------------------------------------------------------
(* The target of a break-point request.                                    *)

\* C13: the break-point analyzer answers None exactly when no loop or labeled
\* block around the cursor is admitted by the cursor's label (any label when the
\* cursor carries none, the same label otherwise); else its target is the
\* innermost admitted one: the result holds that construct's anchor and the
\* anchor of no other loop or labeled block
C13_TargetAncestor ==
    Served("break_points") =>
        /\ result.some <=> BreakCandidates # {}
        /\ result.some =>
              \A a \in {b \in Nodes : IsBreakConstruct(b)} :
                  AnchorRange(a) \in ResultRanges <=> a = BreakTarget

\* a labeled break inside a loop with another label inside the construct with
\* its label: the inner loop is skipped and the outer construct is the target
C13_Witness ==
    /\ Served("break_points") /\ result.some
    /\ tree[Cursor.node].kind = "BreakExpr" /\ tree[Cursor.node].lbl > 0
    /\ \E a \in Nodes :
          /\ IsBelow(Cursor.node, a) /\ IsBelow(a, BreakTarget)
          /\ tree[a].kind \in LoopKinds /\ tree[a].lbl # tree[Cursor.node].lbl
    /\ AnchorRange(BreakTarget) \in ResultRanges

-----------------------------------------------------------------------------
(* The scope of a yield-point request.                                     *)

\* C14: the yield-point analyzer stops at the nearest function, closure or async
\* block around the cursor, passing over every other block; it answers Some
\* exactly when that scope is asynchronous, whatever lies further out, and a
\* Some result is not empty and holds the `async` token of that scope
C14_YieldScope ==
    Served("yield_points") =>
        /\ result.some <=> tree[YieldScope].mod = "async"
        /\ result.some => /\ result.v # <<>>
                          /\ TokRange(YieldScope, "async") \in ResultRanges

\* an `await` inside a closure that is not async inside an async scope: None
C14_Witness ==
    /\ Served("yield_points") /\ result = None
    /\ TokenKind(Cursor) = "await"
    /\ tree[YieldScope].kind = "ClosureExpr" /\ tree[YieldScope].mod = "none"
    /\ \E a \in Nodes : IsBelow(YieldScope, a) /\ tree[a].mod = "async"

-----------------------------------------------------------------------------
(* Loops and labeled blocks in tail position.                              *)

\* the loops and labeled blocks in tail position of the cursor's scope
TailConstructs == {t \in Nodes : IsBreakConstruct(t) /\ InTailPosition(t, CursorScope)}
\* the construct a break leaves: the innermost loop or labeled block around it
\* that its label admits
Leaves(d, t) ==
    /\ IsBreakConstruct(t) /\ InBodyOf(d, t)
    /\ (tree[d].lbl = 0 \/ tree[t].lbl = tree[d].lbl)
    /\ \A a \in Nodes :
          (IsBelow(d, a) /\ IsBelow(a, t) /\ IsBreakConstruct(a) /\ InBodyOf(d, a))
          => (tree[d].lbl > 0 /\ tree[a].lbl # tree[d].lbl)
\* for every break that targets a tail construct, the `break` keyword alone
TailBreaksIncluded ==
    (Served("exit_points") /\ result.some) =>
        \A t \in TailConstructs : \A d \in Nodes :
            (tree[d].kind = "BreakExpr" /\ Targets(d, t)) =>
                /\ TokRange(d, "break") \in ResultRanges
                /\ NodeRange(d) \notin ResultRanges
                /\ KeywordRange(d) # TokRange(d, "break") => KeywordRange(d) \notin ResultRanges
\* the tail construct as a whole is not highlighted
TailConstructNotHighlighted ==
    (Served("exit_points") /\ result.some) =>
        \A t \in TailConstructs : NodeRange(t) \notin ResultRanges

\* C15 as written: ... and a break that leaves a loop nested in the tail
\* construct is not in the result
C15_Original ==
    /\ TailBreaksIncluded
    /\ TailConstructNotHighlighted
    /\ (Served("exit_points") /\ result.some) =>
          \A t \in TailConstructs : \A d \in Nodes, n \in Nodes :
              (/\ tree[d].kind = "BreakExpr" /\ Leaves(d, n)
               /\ IsBelow(n, t) /\ n \notin TailConstructs)
              => TokRange(d, "break") \notin ResultRanges

\* C15 as amended: when a loop or labeled block is in tail position of the exit
\* scope, the result holds the `break` keyword alone, without label or operand,
\* of every break that targets it (unlabeled directly in it, or carrying its label
\* at any depth); the construct as a whole is not highlighted; and a break that
\* leaves a loop nested in it and carries the label of no tail construct is not
\* in the result
C15_TailLoopBreaks ==
    /\ TailBreaksIncluded
    /\ TailConstructNotHighlighted
    /\ (Served("exit_points") /\ result.some) =>
          \A t \in TailConstructs : \A d \in Nodes, n \in Nodes :
              (/\ tree[d].kind = "BreakExpr" /\ Leaves(d, n)
               /\ IsBelow(n, t) /\ n \notin TailConstructs
               /\ \A u \in TailConstructs : tree[d].lbl = 0 \/ tree[u].lbl # tree[d].lbl)
              => TokRange(d, "break") \notin ResultRanges

\* a labeled loop in tail position holding a loop with another label that holds
\* a break of the outer label: the keyword is in the result, the loop is not
C15_Witness ==
    /\ Served("exit_points") /\ result.some
    /\ \E t \in TailConstructs, n \in Nodes, d \in Nodes :
          /\ tree[t].kind = "LoopExpr" /\ tree[t].lbl > 0
          /\ IsBelow(n, t) /\ tree[n].kind \in LoopKinds /\ tree[n].lbl # tree[t].lbl
          /\ IsBelow(d, n) /\ tree[d].kind = "BreakExpr" /\ tree[d].lbl = tree[t].lbl
          /\ TokRange(d, "break") \in ResultRanges
          /\ NodeRange(t) \notin ResultRanges

\* an unlabeled break of a loop nested in the tail loop: not in the result
C15_NestedWitness ==
    /\ Served("exit_points") /\ result.some
    /\ \E t \in TailConstructs, n \in Nodes, d \in Nodes :
          /\ IsBelow(n, t) /\ tree[n].kind \in LoopKinds /\ n \notin TailConstructs
          /\ tree[d].kind = "BreakExpr" /\ tree[d].lbl = 0 /\ Leaves(d, n)
          /\ TokRange(d, "break") \notin ResultRanges

-----------------------------------------------------------------------------
(* What the tail-expression enumeration reports.                           *)

\* the expressions in tail position of the cursor's scope
TailPositions == {d \in Nodes : InTailPosition(d, CursorScope)}
\* what the exit-point analyzer highlights for a tail item
TailItemRange(d) ==
    IF tree[d].kind = "BreakExpr" THEN TokRange(d, "break") ELSE NodeRange(d)
\* every expression in tail position that is no `if`, `match`, block or loop is
\* reported as one tail item
TailLeavesReported ==
    (Served("exit_points") /\ result.some) =>
        \A d \in TailPositions :
            tree[d].kind \notin {"IfExpr", "MatchExpr", "BlockExpr"} \cup LoopKinds
            => TailItemRange(d) \in ResultRanges

\* C16 as written: a loop in tail position is itself one tail item
C16_Original ==
    /\ TailLeavesReported
    /\ (Served("exit_points") /\ result.some) =>
          \A d \in TailPositions : tree[d].kind \in LoopKinds => NodeRange(d) \in ResultRanges

\* C16 as amended: the enumeration reports every expression in tail position
\* that is no `if`, `match`, block or loop as one tail item; for a loop in tail
\* position it reports the breaks that target the loop and not the loop
C16_TailLeaves ==
    /\ TailLeavesReported
    /\ (Served("exit_points") /\ result.some) =>
          \A d \in TailPositions :
              tree[d].kind \in LoopKinds =>
                  /\ NodeRange(d) \notin ResultRanges
                  /\ \A b \in Nodes :
                        (tree[b].kind = "BreakExpr" /\ Targets(b, d))
                        => TokRange(b, "break") \in ResultRanges

\* a loop in tail position that holds a break: the keyword of the break is
\* reported, the loop is not
C16_Witness ==
    /\ Served("exit_points") /\ result.some
    /\ \E l \in TailPositions, b \in Nodes :
          /\ tree[l].kind = "LoopExpr" /\ tree[b].kind = "BreakExpr" /\ Targets(b, l)
          /\ TokRange(b, "break") \in ResultRanges
          /\ NodeRange(l) \notin ResultRanges

-----------------------------------------------------------------------------
(* The token the dispatcher works on.                                      *)

\* the rank of a token: `?` and `->` first, then keywords, then identifiers and
\* integer literals, then `|`, then the rest
Rank(tok) ==
    LET kind == TokenKind(tok)
    IN  IF kind \in {"?", "->"} THEN 4
        ELSE IF kind \in Keywords THEN 3
        ELSE IF kind \in {"IDENT", "INT_NUMBER"} THEN 2
        ELSE IF kind = "|" THEN 1
        ELSE 0
\* the tokens at the offset that no other token at the offset outranks
BestCandidates ==
    {c \in Range(req.cands) : \A o \in Range(req.cands) : Rank(o) <= Rank(c)}
\* what the request would answer if b were the only token at the offset
AnswerFor(config, b) == highlight_related(config, <<b>>, FileId)

\* C17: the request answers for a token of maximal rank among the tokens at the
\* offset, and for the same token under every configuration: between an
\* identifier and `?` it is the `?`, also with exit points disabled, and between
\* an identifier and punctuation it is the identifier
C17_BestToken ==
    (pc = "done" /\ req.cands # <<>>) =>
        \E b \in BestCandidates :
            /\ AnswerFor(req.config, b) = [called |-> called, result |-> result]
            /\ \A config \in AllConfigs :
                  highlight_related(config, req.cands, FileId) = AnswerFor(config, b)

\* the cursor between an identifier and `?`, exit points disabled and references
\* enabled: the request is served by the references analyzer on the `?`, which
\* finds nothing, while on the identifier it would find the local
C17_Witness ==
    /\ pc = "done" /\ Len(req.cands) = 2
    /\ TokenKind(req.cands[1]) = "IDENT" /\ TokenKind(req.cands[2]) = "?"
    /\ ~req.config.exit_points /\ req.config.references
    /\ called = <<"references">> /\ result = None
    /\ AnswerFor(req.config, req.cands[1]).result.some

\* the cursor between an identifier and punctuation: served on the identifier
C17_PunctWitness ==
    /\ pc = "done" /\ Len(req.cands) = 2
    /\ TokenKind(req.cands[1]) = "IDENT" /\ TokenKind(req.cands[2]) = "PUNCT"
    /\ called = <<"references">> /\ result.some
    /\ AnswerFor(req.config, req.cands[2]).result = None

-----------------------------------------------------------------------------
(* Empty results.                                                          *)

\* the definitions whose declaration the analyzer can navigate to
Navigable(d) == IsLocal(d) \/ sema.defs[d].kind = "Module" \/ sema.defs[d].nav
\* the union of the declaration sites and usages of the resolved definitions
RefUnion ==
    DeclHighlights({d \in Resolved : Navigable(d)}) \cup UsageHighlights(Resolved)
\* the cursor is in a format-string argument that denotes no definition
FormatArgOnly == sema.fmt.some /\ sema.fmt.v.def = 0
\* the closure under the cursor has a body and a closure type
ClosureKnown ==
    /\ tree[Cursor.node].kind = "ClosureExpr"
    /\ \E c \in Nodes : tree[c].parent = Cursor.node
    /\ sema.closure_ty
\* the closure-capture analyzer does not turn an empty result into None
ClosureNotNormalised ==
    (Served("closure_captures") /\ ClosureKnown /\ sema.captures = <<>>) => result = Some(<<>>)
\* Some of the references analyzer is the union, each element once, not empty
SomeIsUnion ==
    (Served("references") /\ result.some /\ ~FormatArgOnly) =>
        /\ result.v # <<>>
        /\ ResultSet = RefUnion
        /\ Len(result.v) = Cardinality(ResultSet)

\* C18 as written: the references analyzer answers None exactly when the union is
\* empty, in particular when no definition resolves
C18_Original ==
    /\ SomeIsUnion
    /\ ClosureNotNormalised
    /\ Served("references") => (result = None <=> RefUnion = {})

\* C18 as amended: the references analyzer never answers Some of an empty
\* collection; unless the cursor is in a format-string argument that denotes no
\* definition (then the answer is Some of that argument's range alone), it
\* answers None exactly when the union of the declaration sites and usages of
\* the resolved definitions is empty, and Some of the deduplicated union
\* otherwise; the closure-capture analyzer answers Some of an empty collection
\* for a closure that captures nothing
C18_EmptyResults ==
    /\ SomeIsUnion
    /\ ClosureNotNormalised
    /\ Served("references") =>
          /\ result.some => result.v # <<>>
          /\ ~FormatArgOnly => (result = None <=> RefUnion = {})
          /\ FormatArgOnly => result = Some(<<HighlightedRange(sema.fmt.v.range, "None")>>)

\* an identifier that resolves to a definition with no declaration site and no
\* usage in the file: None
C18_Witness ==
    /\ Served("references") /\ ~sema.fmt.some
    /\ Resolved # {} /\ RefUnion = {}
    /\ result = None

\* a closure with a body that captures nothing: Some of nothing
C18_ClosureWitness ==
    /\ Served("closure_captures") /\ ClosureKnown /\ sema.captures = <<>>
    /\ result = Some(<<>>)

-----------------------------------------------------------------------------
(* The file of the highlights.                                             *)

\* the definitions a references or closure-capture request looks at
Consulted == IF called = <<"closure_captures">> THEN Range(sema.captures) ELSE Resolved
\* the ranges of the declaration sites and usages of d in the queried file
InFileRanges(d) == DeclSites(d) \cup {r.range : r \in FileUsages(d)}
\* the ranges of the declaration sites and usages of d in other files
ElsewhereRanges(d) ==
    {n.focus.v : n \in {m \in Range(sema.defs[d].navs) : m.file_id # FileId /\ m.focus.some}}
    \cup {r.range : r \in {u \in Range(sema.defs[d].refs) : u.file_id # FileId}}

\* C19: every range the references and the closure-capture analyzer return is
\* the range of a declaration site or usage in the queried file (or of the
\* format-string argument under the cursor); no declaration site or usage of
\* another file is returned
C19_QueriedFileOnly ==
    ((Served("references") \/ Served("closure_captures")) /\ result.some) =>
        \A r \in ResultRanges :
            \/ FormatArgOnly /\ called = <<"references">> /\ r = sema.fmt.v.range
            \/ \E d \in Consulted : r \in InFileRanges(d)

\* a definition declared in the queried file and in another file and used in
\* both: the result holds the one and the other of the queried file only
C19_Witness ==
    /\ Served("references") /\ result.some
    /\ \E d \in Resolved :
          /\ \E r \in ElsewhereRanges(d) : r \notin InFileRanges(d) /\ r \notin ResultRanges
          /\ InFileRanges(d) # {} /\ InFileRanges(d) \subseteq ResultRanges

\* the same for a captured local of a closure
C19_ClosureWitness ==
    /\ Served("closure_captures") /\ result.some
    /\ \E d \in Range(sema.captures) :
          /\ \E r \in ElsewhereRanges(d) : r \notin InFileRanges(d) /\ r \notin ResultRanges
          /\ DeclSites(d) # {} /\ DeclSites(d) \subseteq ResultRanges

-----------------------------------------------------------------------------
(* The cursor's own break.                                                 *)

\* C20: with the cursor on a `break` or `continue` keyword, a Some result of the
\* break-point analyzer holds the range of the cursor's own expression, keyword
\* and label, wherever the expression sits under the chosen construct
C20_OwnBreak ==
    (Served("break_points") /\ result.some /\ TokenKind(Cursor) \in {"break", "continue"}) =>
        KeywordRange(Cursor.node) \in ResultRanges

\* the same for a cursor inside the body of the chosen construct
C20_OwnBreakInBody ==
    (/\ Served("break_points") /\ result.some
     /\ TokenKind(Cursor) \in {"break", "continue"}
     /\ InBodyOf(Cursor.node, BreakTarget)) =>
        KeywordRange(Cursor.node) \in ResultRanges

\* the cursor on a break in the condition of a `while` or the iterable of a
\* `for`: the loop is chosen and the cursor's break is not in the result
C20_ConditionMissed ==
    /\ Served("break_points") /\ result.some /\ TokenKind(Cursor) = "break"
    /\ tree[BreakTarget].kind \in {"WhileExpr", "ForExpr"}
    /\ ~InBodyOf(Cursor.node, BreakTarget)
    /\ KeywordRange(Cursor.node) \notin ResultRanges

====
